---- MODULE Spec2Model ----
(***************************************************************************)
(* SoccerGame: team formation by semaphores and shared memory.             *)
(* The player life cycle is semSharedMemPlayer.c (arrive,                  *)
(* playerConstituteTeam, waitReferee, playUntilEnd).  The goalie and the   *)
(* referee are protocol peers whose code is not part of the player file;   *)
(* they are modelled from the design document, mirroring the player.       *)
(*                                                                         *)
(* Player processes are identical: the id of a player is used only to      *)
(* index its own entry of playerStat.  The processes are therefore kept as *)
(* a bag of process records; the field stat of a record is that player's   *)
(* entry of sh->fSt.st.playerStat.                                         *)
(***************************************************************************)
EXTENDS Integers, FiniteSets, Sequences, Bags, TLC

\* ---- population (bounds of the model) ----
NumPlayers == 9
NumGoalies == 2

\* ---- program constants ----
\* NUMTEAMPLAYERS is used at line 202 and set in probConst.h.  Its value is
\* fixed by the literals of playerConstituteTeam: a leader reserves 3 free
\* players (line 187) and calls NUMTEAMPLAYERS-1 of them (line 202), and players
\* are late after 8 = 2 * NUMTEAMPLAYERS arrivals (line 182).
NUMTEAMPLAYERS == 4
\* one goalie is reserved (line 188) and called (line 203) per team
NUMTEAMGOALIES == 1
\* the first team id handed out: 1 for team 1, 2 for team 2 (line 170)
InitialTeamId == 1
\* the match is played by two teams
NumTeams == 2

SemNames == {"mutex", "playersWaitTeam", "goaliesWaitTeam", "playerRegistered",
             "refereeWaitTeams", "playersWaitReferee", "playing", "playersWaitEnd"}

\* the channels of the team formation handshake
HandshakeNames == {"playersWaitTeam", "goaliesWaitTeam", "playerRegistered",
                   "refereeWaitTeams"}

VARIABLES
    sem,             \* semaphore values, by name
    playersArrived, goaliesArrived, playersFree, goaliesFree, teamId,
    players,         \* bag of player processes
    goalies,         \* bag of goalie processes
    referee,         \* the referee process
    nForm,           \* history: number of reservations made so far
    claims,          \* history: number of teamId increments made so far
    signals,         \* history: number of semUp made so far, by handshake channel
    followers        \* history: number of processes that took the waiting branch, by role

counters == <<playersArrived, goaliesArrived, playersFree, goaliesFree, teamId>>
hist     == <<nForm, claims, signals, followers>>
vars     == <<sem, counters, players, goalies, referee, hist>>

\* A process record:
\*   pc           position in the code
\*   stat         its entry of playerStat / goalieStat
\*   ret, count, player_type   locals of the constitute-team call
\*   team         the value the call returned (main's team)
\*   inCR         history: it did semDown on mutex and not yet semUp
\*   batch        history: the formation it reserved, or was woken in
\*   log          history: what a leader has done so far in this call
NewProcess ==
    [pc |-> "a_down", stat |-> "ARRIVING", ret |-> 0, count |-> 0,
     player_type |-> 0, team |-> 0, inCR |-> FALSE, batch |-> 0, log |-> <<>>]

\* the bag b with one copy of r replaced by r2
Move(b, r, r2) == (b (-) SetToBag({r})) (+) SetToBag({r2})

\* ---- semaphore primitives (semUp adds one, semDown blocks at 0) ----
Up(s)      == [sem EXCEPT ![s] = @ + 1]
Down(s)    == [sem EXCEPT ![s] = @ - 1]
CanDown(s) == sem[s] > 0

\* the history of signals after one more semUp on s
Signalled(s) == [signals EXCEPT ![s] = @ + 1]

\* faulty variant: the two PLAYING statuses are exchanged
TeamStat_PlayingSwapped(prefix, t) ==
    IF prefix = "PLAYING"
    THEN (IF t = 1 THEN "PLAYING_2" ELSE "PLAYING_1")
    ELSE (IF t = 1 THEN prefix \o "_1" ELSE prefix \o "_2")

\* lines 271 and 302: (team == 1) ? X_1 : X_2
TeamStat(prefix, t) == IF t = 1 THEN prefix \o "_1" ELSE prefix \o "_2"

\* ---- faulty variants of the decisions, used to test the properties ----
IsLate_OffByOne(arrived) == arrived >= 8
IsLate_Nine(arrived) == arrived > 9
CanFormTeam_NoGoalie(pf, gf) == pf >= 3
CanFormTeam_FourFree(pf, gf) == pf >= 4 /\ gf # 0
CanFormTeam_TwoFree(pf, gf) == pf >= 2 /\ gf # 0

\* faulty variant: players are late once two teams of 3 are complete
IsLate_Six(arrived) == arrived > 6

\* ---- decisions of playerConstituteTeam, lines 182 and 186 ----
IsLate(arrived) == arrived > 8

CanFormTeam(pf, gf) == pf >= 3 /\ gf # 0

\* faulty variant: main goes on to waitReferee whatever was returned
AfterConstitute_Always(t) == "w_down"

\* where main continues with the value returned (lines 119-122)
AfterConstitute(t) == IF t # 0 THEN "w_down" ELSE "done"

\* return ret (line 252): main's team takes the value, the locals of the call end
Return(r, next) ==
    [r EXCEPT !.pc = next, !.team = r.ret, !.ret = 0, !.count = 0, !.player_type = 0,
              !.log = <<>>]

\* n processes that have not started yet
Population(n) == [x \in (IF n > 0 THEN {NewProcess} ELSE {}) |-> n]

\* the shared region and the semaphore set as created before the processes start
InitShared ==
    /\ sem = [s \in SemNames |-> IF s = "mutex" THEN 1 ELSE 0]
    /\ playersArrived = 0 /\ goaliesArrived = 0
    /\ playersFree = 0 /\ goaliesFree = 0
    /\ teamId = InitialTeamId
    /\ referee = [pc |-> "r_teams", count |-> 0]
    /\ nForm = 0
    /\ claims = 0
    /\ signals = [s \in HandshakeNames |-> 0]
    /\ followers = [players |-> 0, goalies |-> 0]

\* every player and every goalie process is started
Init ==
    /\ InitShared
    /\ players = Population(NumPlayers)
    /\ goalies = Population(NumGoalies)

\* only some of the processes are started (the others never arrive)
InitAny ==
    /\ InitShared
    /\ \E np \in 0 .. NumPlayers : players = Population(np)
    /\ \E ng \in 0 .. NumGoalies : goalies = Population(ng)

\* ======================= player: arrive (lines 140-156) =======================

\* The critical region of arrive holds no blocking operation: it is one step,
\* taken when the mutex is free.
\* lines 142-153: enter critical region, status ARRIVING, exit
arrive_cs(r) ==
    /\ r.pc = "a_down"
    /\ CanDown("mutex")
    /\ players' = Move(players, r, [r EXCEPT !.pc = "c_down", !.stat = "ARRIVING"])
    /\ UNCHANGED <<sem, counters, goalies, referee, hist>>

\* ============== player: playerConstituteTeam (lines 173-253) ==============

\* faulty variant: the semDown on mutex is missing
constitute_down_NoLock(r) ==
    /\ r.pc = "c_down"
    /\ players' = Move(players, r, [r EXCEPT !.pc = "c_cs", !.ret = 0])
    /\ UNCHANGED <<sem, counters, goalies, referee, hist>>

\* lines 175-177: ret = 0, enter critical region
constitute_down(r) ==
    /\ r.pc = "c_down"
    /\ CanDown("mutex")
    /\ sem' = Down("mutex")
    /\ players' = Move(players, r, [r EXCEPT !.pc = "c_cs", !.inCR = TRUE, !.ret = 0])
    /\ UNCHANGED <<counters, goalies, referee, hist>>

\* faulty variant: the leader reserves a whole team of free players, itself included
constitute_decide_ReservesFour(r) ==
    /\ r.pc = "c_cs"
    /\ playersArrived' = playersArrived + 1
    /\ IF IsLate(playersArrived + 1)
       THEN /\ players' = Move(players, r, [r EXCEPT !.pc = "c_up", !.stat = "LATE",
                                                     !.player_type = 0])
            /\ UNCHANGED <<playersFree, goaliesFree, nForm, followers>>
       ELSE IF CanFormTeam(playersFree, goaliesFree)
       THEN /\ playersFree' = playersFree - NUMTEAMPLAYERS
            /\ goaliesFree' = goaliesFree - 1
            /\ players' = Move(players, r, [r EXCEPT !.pc = "l_up", !.stat = "FORMING_TEAM",
                                                     !.count = 0, !.player_type = 0,
                                                     !.batch = nForm + 1])
            /\ nForm' = nForm + 1
            /\ UNCHANGED followers
       ELSE /\ playersFree' = playersFree + 1
            /\ players' = Move(players, r, [r EXCEPT !.pc = "c_up", !.stat = "WAITING_TEAMS",
                                                     !.player_type = 2])
            /\ followers' = [followers EXCEPT !.players = @ + 1]
            /\ UNCHANGED <<goaliesFree, nForm>>
    /\ UNCHANGED <<sem, goaliesArrived, teamId, goalies, referee, claims, signals>>

\* lines 181-190 and 216-221: the three-way decision under the mutex
constitute_decide(r) ==
    /\ r.pc = "c_cs"
    /\ playersArrived' = playersArrived + 1
    /\ IF IsLate(playersArrived + 1)
       THEN /\ players' = Move(players, r, [r EXCEPT !.pc = "c_up", !.stat = "LATE",
                                                     !.player_type = 0])
            /\ UNCHANGED <<playersFree, goaliesFree, nForm, followers>>
       ELSE IF CanFormTeam(playersFree, goaliesFree)
       THEN /\ playersFree' = playersFree - 3
            /\ goaliesFree' = goaliesFree - 1
            /\ players' = Move(players, r, [r EXCEPT !.pc = "l_up", !.stat = "FORMING_TEAM",
                                                     !.count = 0, !.player_type = 0,
                                                     !.batch = nForm + 1])
            /\ nForm' = nForm + 1
            /\ UNCHANGED followers
       ELSE /\ playersFree' = playersFree + 1
            /\ players' = Move(players, r, [r EXCEPT !.pc = "c_up", !.stat = "WAITING_TEAMS",
                                                     !.player_type = 2])
            /\ followers' = [followers EXCEPT !.players = @ + 1]
            /\ UNCHANGED <<goaliesFree, nForm>>
    /\ UNCHANGED <<sem, goaliesArrived, teamId, goalies, referee, claims, signals>>

\* faulty variant: the leader leaves the critical region before its first call
leader_callPlayer_ReleasesMutex(r) ==
    /\ r.pc = "l_up"
    /\ sem' = [sem EXCEPT !["playersWaitTeam"] = @ + 1,
                          !["mutex"] = IF r.count = 0 THEN @ + 1 ELSE @]
    /\ players' = Move(players, r, [r EXCEPT !.pc = "l_down",
                                            !.log = Append(@, "up playersWaitTeam")])
    /\ signals' = Signalled("playersWaitTeam")
    /\ UNCHANGED <<counters, goalies, referee, nForm, claims, followers>>

\* line 193: semUp playersWaitTeam
leader_callPlayer(r) ==
    /\ r.pc = "l_up"
    /\ sem' = Up("playersWaitTeam")
    /\ players' = Move(players, r, [r EXCEPT !.pc = "l_down",
                                            !.log = Append(@, "up playersWaitTeam")])
    /\ signals' = Signalled("playersWaitTeam")
    /\ UNCHANGED <<counters, goalies, referee, nForm, claims, followers>>

\* faulty variant: the loop test counts the leader itself (one round too many)
leader_playerRegistered_ExtraRound(r) ==
    /\ r.pc = "l_down"
    /\ CanDown("playerRegistered")
    /\ sem' = Down("playerRegistered")
    /\ players' = Move(players, r,
          [r EXCEPT !.pc = IF r.count + 1 # NUMTEAMPLAYERS THEN "l_up" ELSE "lg_up",
                    !.count = r.count + 1,
                    !.log = Append(@, "down playerRegistered")])
    /\ UNCHANGED <<counters, goalies, referee, hist>>

\* faulty variant: the leader does not wait for the registration
leader_playerRegistered_NoWait(r) ==
    /\ r.pc = "l_down"
    /\ players' = Move(players, r,
          [r EXCEPT !.pc = IF r.count + 1 # NUMTEAMPLAYERS - 1 THEN "l_up" ELSE "lg_up",
                    !.count = r.count + 1,
                    !.log = Append(@, "down playerRegistered")])
    /\ UNCHANGED <<sem, counters, goalies, referee, hist>>

\* lines 197-202: semDown playerRegistered, count++, loop test
leader_playerRegistered(r) ==
    /\ r.pc = "l_down"
    /\ CanDown("playerRegistered")
    /\ sem' = Down("playerRegistered")
    /\ players' = Move(players, r,
          [r EXCEPT !.pc = IF r.count + 1 # NUMTEAMPLAYERS - 1 THEN "l_up" ELSE "lg_up",
                    !.count = r.count + 1,
                    !.log = Append(@, "down playerRegistered")])
    /\ UNCHANGED <<counters, goalies, referee, hist>>

\* line 203: semUp goaliesWaitTeam
leader_callGoalie(r) ==
    /\ r.pc = "lg_up"
    /\ sem' = Up("goaliesWaitTeam")
    /\ players' = Move(players, r, [r EXCEPT !.pc = "lg_down",
                                            !.log = Append(@, "up goaliesWaitTeam")])
    /\ signals' = Signalled("goaliesWaitTeam")
    /\ UNCHANGED <<counters, goalies, referee, nForm, claims, followers>>

\* faulty variant: the leader does not wait for the goalie's registration
leader_goalieRegistered_NoWait(r) ==
    /\ r.pc = "lg_down"
    /\ players' = Move(players, r, [r EXCEPT !.pc = "l_claim",
                                            !.log = Append(@, "down playerRegistered")])
    /\ UNCHANGED <<sem, counters, goalies, referee, hist>>

\* line 207: semDown playerRegistered
leader_goalieRegistered(r) ==
    /\ r.pc = "lg_down"
    /\ CanDown("playerRegistered")
    /\ sem' = Down("playerRegistered")
    /\ players' = Move(players, r, [r EXCEPT !.pc = "l_claim",
                                            !.log = Append(@, "down playerRegistered")])
    /\ UNCHANGED <<counters, goalies, referee, hist>>

\* faulty variant: ret = ++sh->fSt.teamId
leader_claim_PreIncrement(r) ==
    /\ r.pc = "l_claim"
    /\ teamId' = teamId + 1
    /\ claims' = claims + 1
    /\ players' = Move(players, r, [r EXCEPT !.pc = "c_up", !.ret = teamId + 1,
                                            !.player_type = 1,
                                            !.log = Append(@, "teamId++")])
    /\ UNCHANGED <<sem, playersArrived, goaliesArrived, playersFree, goaliesFree,
                   goalies, referee, nForm, signals, followers>>

\* lines 212-213: ret = sh->fSt.teamId++; player_type = 1
leader_claim(r) ==
    /\ r.pc = "l_claim"
    /\ teamId' = teamId + 1
    /\ claims' = claims + 1
    /\ players' = Move(players, r, [r EXCEPT !.pc = "c_up", !.ret = teamId, !.player_type = 1,
                                            !.log = Append(@, "teamId++")])
    /\ UNCHANGED <<sem, playersArrived, goaliesArrived, playersFree, goaliesFree,
                   goalies, referee, nForm, signals, followers>>

\* faulty variant: the mutex is not released before the switch
constitute_up_KeepsMutex(r) ==
    /\ r.pc = "c_up"
    /\ players' = Move(players, r,
          IF r.player_type = 0
          THEN Return(r, AfterConstitute(r.ret))
          ELSE [r EXCEPT !.pc = IF r.player_type = 1 THEN "c_ref" ELSE "f_wait"])
    /\ UNCHANGED <<sem, counters, goalies, referee, hist>>

\* lines 223-229 and 252: semUp mutex, then the switch; case 0 returns ret
constitute_up(r) ==
    /\ r.pc = "c_up"
    /\ sem' = Up("mutex")
    /\ players' = Move(players, r,
          IF r.player_type = 0
          THEN [Return(r, AfterConstitute(r.ret)) EXCEPT !.inCR = FALSE]
          ELSE [r EXCEPT !.pc = IF r.player_type = 1 THEN "c_ref" ELSE "f_wait",
                         !.inCR = FALSE])
    /\ UNCHANGED <<counters, goalies, referee, hist>>

\* lines 230-235 and 252: semUp refereeWaitTeams, return ret
leader_notifyReferee(r) ==
    /\ r.pc = "c_ref"
    /\ sem' = Up("refereeWaitTeams")
    /\ players' = Move(players, r, Return(r, AfterConstitute(r.ret)))
    /\ signals' = Signalled("refereeWaitTeams")
    /\ UNCHANGED <<counters, goalies, referee, nForm, claims, followers>>

\* faulty variant: the follower waits on the goalies' channel
follower_wait_GoalieChannel(r) ==
    /\ r.pc = "f_wait"
    /\ CanDown("goaliesWaitTeam")
    /\ sem' = Down("goaliesWaitTeam")
    /\ players' = Move(players, r, [r EXCEPT !.pc = "f_read", !.batch = nForm])
    /\ UNCHANGED <<counters, goalies, referee, hist>>

\* line 237: semDown playersWaitTeam
follower_wait(r) ==
    /\ r.pc = "f_wait"
    /\ CanDown("playersWaitTeam")
    /\ sem' = Down("playersWaitTeam")
    /\ players' = Move(players, r, [r EXCEPT !.pc = "f_read", !.batch = nForm])
    /\ UNCHANGED <<counters, goalies, referee, hist>>

\* faulty variant: the follower reads teamId inside a critical region of its own
follower_read_UnderMutex(r) ==
    /\ r.pc = "f_read"
    /\ CanDown("mutex")
    /\ players' = Move(players, r, [r EXCEPT !.pc = "f_ack", !.ret = teamId])
    /\ UNCHANGED <<sem, counters, goalies, referee, hist>>

\* faulty variant: the follower increments teamId as the leader does
follower_read_Increments(r) ==
    /\ r.pc = "f_read"
    /\ players' = Move(players, r, [r EXCEPT !.pc = "f_ack", !.ret = teamId])
    /\ teamId' = teamId + 1
    /\ UNCHANGED <<sem, playersArrived, goaliesArrived, playersFree, goaliesFree,
                   goalies, referee, hist>>

\* line 242: ret = sh->fSt.teamId
follower_read(r) ==
    /\ r.pc = "f_read"
    /\ players' = Move(players, r, [r EXCEPT !.pc = "f_ack", !.ret = teamId])
    /\ UNCHANGED <<sem, counters, goalies, referee, hist>>

\* faulty variant: the follower returns without signalling playerRegistered
follower_register_NoAck(r) ==
    /\ r.pc = "f_ack"
    /\ players' = Move(players, r, Return(r, AfterConstitute(r.ret)))
    /\ UNCHANGED <<sem, counters, goalies, referee, hist>>

\* lines 243-247 and 252: semUp playerRegistered, return ret
follower_register(r) ==
    /\ r.pc = "f_ack"
    /\ sem' = Up("playerRegistered")
    /\ players' = Move(players, r, Return(r, AfterConstitute(r.ret)))
    /\ signals' = Signalled("playerRegistered")
    /\ UNCHANGED <<counters, goalies, referee, nForm, claims, followers>>

\* ==================== player: waitReferee (lines 264-284) ====================
\* The critical regions of waitReferee and playUntilEnd hold no blocking
\* operation either: each is one step, taken when the mutex is free.

\* lines 266-277: enter critical region, status WAITING_START_k, exit
waitReferee_cs(r) ==
    /\ r.pc = "w_down"
    /\ CanDown("mutex")
    /\ players' = Move(players, r, [r EXCEPT !.pc = "w_wait",
                                            !.stat = TeamStat("WAITING_START", r.team)])
    /\ UNCHANGED <<sem, counters, goalies, referee, hist>>

\* line 279: semDown playersWaitReferee
waitReferee_wait(r) ==
    /\ r.pc = "w_wait"
    /\ CanDown("playersWaitReferee")
    /\ sem' = Down("playersWaitReferee")
    /\ players' = Move(players, r, [r EXCEPT !.pc = "p_down"])
    /\ UNCHANGED <<counters, goalies, referee, hist>>

\* ==================== player: playUntilEnd (lines 295-320) ====================
\* lines 297-313: enter critical region, status PLAYING_k, semUp playing, exit
playUntilEnd_cs(r) ==
    /\ r.pc = "p_down"
    /\ CanDown("mutex")
    /\ sem' = Up("playing")
    /\ players' = Move(players, r, [r EXCEPT !.pc = "p_wait",
                                            !.stat = TeamStat("PLAYING", r.team)])
    /\ UNCHANGED <<counters, goalies, referee, hist>>

\* line 315: semDown playersWaitEnd
playUntilEnd_wait(r) ==
    /\ r.pc = "p_wait"
    /\ CanDown("playersWaitEnd")
    /\ sem' = Down("playersWaitEnd")
    /\ players' = Move(players, r, [r EXCEPT !.pc = "done"])
    /\ UNCHANGED <<counters, goalies, referee, hist>>

Player(r) ==
    \/ arrive_cs(r)
    \/ constitute_down(r) \/ constitute_decide(r)
    \/ leader_callPlayer(r) \/ leader_playerRegistered(r)
    \/ leader_callGoalie(r) \/ leader_goalieRegistered(r)
    \/ leader_claim(r) \/ constitute_up(r) \/ leader_notifyReferee(r)
    \/ follower_wait(r) \/ follower_read(r) \/ follower_register(r)
    \/ waitReferee_cs(r) \/ waitReferee_wait(r)
    \/ playUntilEnd_cs(r) \/ playUntilEnd_wait(r)

\* ======================= goalie (design document, 4.4) =======================
\* The goalie runs the player's rules mirrored: it is late once the goalies of
\* both teams have arrived, it forms a team when a whole set of field players is
\* free, otherwise it waits on goaliesWaitTeam to be called.  It takes no part in
\* the channels between players and referee.
GoalieIsLate(arrived) == arrived > NumTeams * NUMTEAMGOALIES
GoalieCanFormTeam(pf) == pf >= NUMTEAMPLAYERS

\* arrive: enter critical region, status ARRIVING, exit
goalie_arrive_cs(r) ==
    /\ r.pc = "a_down"
    /\ CanDown("mutex")
    /\ goalies' = Move(goalies, r, [r EXCEPT !.pc = "c_down", !.stat = "ARRIVING"])
    /\ UNCHANGED <<sem, counters, players, referee, hist>>

\* constitute team: enter critical region
goalie_constitute_down(r) ==
    /\ r.pc = "c_down"
    /\ CanDown("mutex")
    /\ sem' = Down("mutex")
    /\ goalies' = Move(goalies, r, [r EXCEPT !.pc = "c_cs", !.inCR = TRUE, !.ret = 0])
    /\ UNCHANGED <<counters, players, referee, hist>>

\* constitute team: the three-way decision under the mutex
goalie_constitute_decide(r) ==
    /\ r.pc = "c_cs"
    /\ goaliesArrived' = goaliesArrived + 1
    /\ IF GoalieIsLate(goaliesArrived + 1)
       THEN /\ goalies' = Move(goalies, r, [r EXCEPT !.pc = "c_up", !.stat = "LATE",
                                                     !.player_type = 0])
            /\ UNCHANGED <<playersFree, goaliesFree, nForm, followers>>
       ELSE IF GoalieCanFormTeam(playersFree)
       THEN /\ playersFree' = playersFree - NUMTEAMPLAYERS
            /\ goalies' = Move(goalies, r, [r EXCEPT !.pc = "l_up", !.stat = "FORMING_TEAM",
                                                     !.count = 0, !.player_type = 0,
                                                     !.batch = nForm + 1])
            /\ nForm' = nForm + 1
            /\ UNCHANGED <<goaliesFree, followers>>
       ELSE /\ goaliesFree' = goaliesFree + 1
            /\ goalies' = Move(goalies, r, [r EXCEPT !.pc = "c_up", !.stat = "WAITING_TEAMS",
                                                     !.player_type = 2])
            /\ followers' = [followers EXCEPT !.goalies = @ + 1]
            /\ UNCHANGED <<playersFree, nForm>>
    /\ UNCHANGED <<sem, playersArrived, teamId, players, referee, claims, signals>>

\* leader: semUp playersWaitTeam
goalie_leader_callPlayer(r) ==
    /\ r.pc = "l_up"
    /\ sem' = Up("playersWaitTeam")
    /\ goalies' = Move(goalies, r, [r EXCEPT !.pc = "l_down"])
    /\ signals' = Signalled("playersWaitTeam")
    /\ UNCHANGED <<counters, players, referee, nForm, claims, followers>>

\* leader: semDown playerRegistered, once for every field player
goalie_leader_playerRegistered(r) ==
    /\ r.pc = "l_down"
    /\ CanDown("playerRegistered")
    /\ sem' = Down("playerRegistered")
    /\ goalies' = Move(goalies, r, [r EXCEPT !.pc = IF r.count + 1 # NUMTEAMPLAYERS THEN "l_up" ELSE "l_claim", !.count = r.count + 1])
    /\ UNCHANGED <<counters, players, referee, hist>>

\* leader: ret = teamId++
goalie_leader_claim(r) ==
    /\ r.pc = "l_claim"
    /\ teamId' = teamId + 1
    /\ claims' = claims + 1
    /\ goalies' = Move(goalies, r, [r EXCEPT !.pc = "c_up", !.ret = teamId, !.player_type = 1])
    /\ UNCHANGED <<sem, playersArrived, goaliesArrived, playersFree, goaliesFree,
                   players, referee, nForm, signals, followers>>

\* exit critical region; a late goalie returns
goalie_constitute_up(r) ==
    /\ r.pc = "c_up"
    /\ sem' = Up("mutex")
    /\ goalies' = Move(goalies, r,
          IF r.player_type = 0
          THEN [Return(r, "done") EXCEPT !.inCR = FALSE]
          ELSE [r EXCEPT !.pc = IF r.player_type = 1 THEN "c_ref" ELSE "f_wait",
                         !.inCR = FALSE])
    /\ UNCHANGED <<counters, players, referee, hist>>

\* leader: semUp refereeWaitTeams, return ret
goalie_leader_notifyReferee(r) ==
    /\ r.pc = "c_ref"
    /\ sem' = Up("refereeWaitTeams")
    /\ goalies' = Move(goalies, r, Return(r, "done"))
    /\ signals' = Signalled("refereeWaitTeams")
    /\ UNCHANGED <<counters, players, referee, nForm, claims, followers>>

\* follower: semDown goaliesWaitTeam
goalie_follower_wait(r) ==
    /\ r.pc = "f_wait"
    /\ CanDown("goaliesWaitTeam")
    /\ sem' = Down("goaliesWaitTeam")
    /\ goalies' = Move(goalies, r, [r EXCEPT !.pc = "f_read", !.batch = nForm])
    /\ UNCHANGED <<counters, players, referee, hist>>

\* follower: ret = teamId
goalie_follower_read(r) ==
    /\ r.pc = "f_read"
    /\ goalies' = Move(goalies, r, [r EXCEPT !.pc = "f_ack", !.ret = teamId])
    /\ UNCHANGED <<sem, counters, players, referee, hist>>

\* follower: semUp playerRegistered, return ret
goalie_follower_register(r) ==
    /\ r.pc = "f_ack"
    /\ sem' = Up("playerRegistered")
    /\ goalies' = Move(goalies, r, Return(r, "done"))
    /\ signals' = Signalled("playerRegistered")
    /\ UNCHANGED <<counters, players, referee, nForm, claims, followers>>

Goalie(r) ==
    \/ goalie_arrive_cs(r)
    \/ goalie_constitute_down(r) \/ goalie_constitute_decide(r)
    \/ goalie_leader_callPlayer(r) \/ goalie_leader_playerRegistered(r)
    \/ goalie_leader_claim(r) \/ goalie_constitute_up(r) \/ goalie_leader_notifyReferee(r)
    \/ goalie_follower_wait(r) \/ goalie_follower_read(r) \/ goalie_follower_register(r)

\* ======================= referee (design document, 4.4) =======================
\* players that take part in the match
NumPlaying == NumTeams * NUMTEAMPLAYERS

\* waits on refereeWaitTeams, once for every team
referee_waitTeams ==
    /\ referee.pc = "r_teams"
    /\ CanDown("refereeWaitTeams")
    /\ sem' = Down("refereeWaitTeams")
    /\ referee' = IF referee.count + 1 = NumTeams
                  THEN [pc |-> "r_start", count |-> 0]
                  ELSE [referee EXCEPT !.count = @ + 1]
    /\ UNCHANGED <<counters, players, goalies, hist>>

\* releases all players into play: playersWaitReferee, once for every player
referee_startGame ==
    /\ referee.pc = "r_start"
    /\ sem' = [sem EXCEPT !["playersWaitReferee"] = @ + NumPlaying]
    /\ referee' = [referee EXCEPT !.pc = "r_play"]
    /\ UNCHANGED <<counters, players, goalies, hist>>

\* has counted the playing signal of every player
referee_play ==
    /\ referee.pc = "r_play"
    /\ sem["playing"] >= NumPlaying
    /\ sem' = [sem EXCEPT !["playing"] = @ - NumPlaying]
    /\ referee' = [referee EXCEPT !.pc = "r_end"]
    /\ UNCHANGED <<counters, players, goalies, hist>>

\* releases all players at the end: playersWaitEnd, once for every player
referee_endGame ==
    /\ referee.pc = "r_end"
    /\ sem' = [sem EXCEPT !["playersWaitEnd"] = @ + NumPlaying]
    /\ referee' = [referee EXCEPT !.pc = "done"]
    /\ UNCHANGED <<counters, players, goalies, hist>>

RefereeStep == referee_waitTeams \/ referee_startGame \/ referee_play \/ referee_endGame

Next ==
    \/ \E r \in BagToSet(players) : Player(r)
    \/ \E r \in BagToSet(goalies) : Goalie(r)
    \/ RefereeStep

Spec == Init /\ [][Next]_vars

\* every process that can run eventually runs (the scheduler lets no runnable
\* process starve; no process loops)
FairSpec == Spec /\ WF_vars(Next)

\* any number of the processes arrive
SpecAny == InitAny /\ [][Next]_vars

\* ============================== properties ==============================
PSet == BagToSet(players)
GSet == BagToSet(goalies)

\* sum of W over the processes of the bag b (W is never negative)
Total(b, W(_)) == BagCardinality([e \in {x \in DOMAIN b : W(x) > 0} |-> b[e] * W(e)])

\* number of processes of the bag b that satisfy P
Count(b, P(_)) == BagCardinality([e \in {x \in DOMAIN b : P(x)} |-> b[e]])

Min(a, b) == IF a < b THEN a ELSE b
Max(a, b) == IF a > b THEN a ELSE b

\* no process can take a step
Quiescent == ~ENABLED Next

\* positions between a leader's reservation and its claim of teamId
LeaderPcs == {"l_up", "l_down", "lg_up", "lg_down", "l_claim"}
IsLeading(r) == r.pc \in LeaderPcs
NumLeading == Count(players, IsLeading) + Count(goalies, IsLeading)

\* positions at which a player waits on a rendezvous channel
LeaderWaitPcs == {"l_down", "lg_down"}                 \* playerRegistered
OtherWaitPcs  == {"f_wait", "w_wait", "p_wait"}        \* playersWaitTeam, playersWaitReferee, playersWaitEnd

\* the process knows a team id: a follower that has read teamId, a leader that
\* has claimed it, or any process that has returned from the call with one
HasId(r) ==
    \/ r.team # 0
    \/ r.pc = "f_ack"
    \/ (r.pc \in {"c_up", "c_ref"} /\ r.player_type = 1)
IdOf(r) == IF r.team # 0 THEN r.team ELSE r.ret
WithId == {r \in PSet \cup GSet : HasId(r)}

\* followers that wait to be called and have not consumed a call yet
IsUncalled(r) == r.player_type = 2 /\ r.pc \in {"c_up", "f_wait"}

\* calls on playersWaitTeam the leader r has reserved and not yet made
PlayerCallsLeft(r, rounds) ==
    IF r.pc = "l_up" THEN rounds - r.count
    ELSE IF r.pc = "l_down" THEN rounds - r.count - 1
    ELSE 0
\* field players reserved by a leader and not yet woken
PlayersReservedNow ==
    sem["playersWaitTeam"]
    + Total(players, LAMBDA r : PlayerCallsLeft(r, NUMTEAMPLAYERS - 1))
    + Total(goalies, LAMBDA r : PlayerCallsLeft(r, NUMTEAMPLAYERS))
\* goalies reserved by a leader and not yet woken
GoaliesReservedNow ==
    sem["goaliesWaitTeam"] + Count(players, LAMBDA r : r.pc \in {"l_up", "l_down", "lg_up"})

\* teams that np players and ng goalies can form
TeamsFor(np, ng) ==
    Min(Min(np, NumTeams * NUMTEAMPLAYERS) \div NUMTEAMPLAYERS,
        Min(ng, NumTeams * NUMTEAMGOALIES) \div NUMTEAMGOALIES)

C2_FollowersReadLeaderId ==
    /\ teamId = InitialTeamId + claims
    /\ claims <= nForm
    /\ \A r \in PSet \cup GSet :
          r.pc = "f_read" => (r.batch = nForm /\ claims = nForm - 1)
    /\ \A r1 \in WithId : \A r2 \in WithId :
          r1.batch = r2.batch => IdOf(r1) = IdOf(r2)
    /\ \A l \in PSet : l.pc = "l_claim" =>
          /\ Count(players, LAMBDA r : r.batch = l.batch /\ HasId(r)) = NUMTEAMPLAYERS - 1
          /\ Count(goalies, LAMBDA r : r.batch = l.batch /\ HasId(r)) = NUMTEAMGOALIES
    /\ \A l \in GSet : l.pc = "l_claim" =>
          Count(players, LAMBDA r : r.batch = l.batch /\ HasId(r)) = NUMTEAMPLAYERS

\* the second formation is complete: its leader has claimed id 2, and three
\* field players and one goalie of the same formation hold id 2 as well
C2_Witness ==
    /\ \E l \in PSet : l.pc = "c_ref" /\ l.batch = 2 /\ l.ret = InitialTeamId + 1
    /\ Count(players, LAMBDA r : r.batch = 2 /\ r.team = InitialTeamId + 1) = 3
    /\ Count(goalies, LAMBDA r : r.batch = 2 /\ r.team = InitialTeamId + 1) = 1

\* ---------------------------------------------------------------------------
\* C3: every player that is not LATE eventually reaches PLAYING_1 or PLAYING_2
\* (all processes started, weak fairness).
AllSettled == \A r \in PSet : r.stat \in {"LATE", "PLAYING_1", "PLAYING_2"}
C3_EventuallyPlaying == <>AllSettled

\* eight players are playing, four in each team, and the others are late
C3_Witness ==
    /\ AllSettled
    /\ Count(players, LAMBDA r : r.stat = "PLAYING_1") = NUMTEAMPLAYERS
    /\ Count(players, LAMBDA r : r.stat = "PLAYING_2") = NUMTEAMPLAYERS
    /\ Count(players, LAMBDA r : r.stat = "LATE") > 0

\* ---------------------------------------------------------------------------
\* C4: teamId changes only by a leader's claim, which adds exactly one, and
\* processes of different formations never hold the same team id.
C4_TeamIdStep == [][teamId' # teamId => (teamId' = teamId + 1 /\ claims' = claims + 1
                                          /\ nForm = claims + 1)]_vars
C4_DistinctIds ==
    \A r1 \in WithId : \A r2 \in WithId :
        r1.batch # r2.batch => IdOf(r1) # IdOf(r2)
C4_TeamIdUnique == []C4_DistinctIds /\ C4_TeamIdStep

\* both leaders have returned, with different ids
C4_Witness ==
    /\ claims = 2 /\ teamId = InitialTeamId + 2
    /\ \E r1 \in PSet \cup GSet : \E r2 \in PSet \cup GSet :
          /\ r1.stat = "FORMING_TEAM" /\ r2.stat = "FORMING_TEAM"
          /\ r1.team = 1 /\ r2.team = 2

\* ---------------------------------------------------------------------------
\* C5: at most one process is between its reservation and its claim of teamId,
\* it holds the mutex all that time, and what it has reserved and not yet woken
\* is covered by followers that really wait (no free player or goalie is
\* reserved twice).
C5_OneLeader ==
    /\ NumLeading <= 1
    /\ NumLeading = nForm - claims
    /\ \A r \in PSet \cup GSet : IsLeading(r) => (r.inCR /\ sem["mutex"] = 0)
    /\ PlayersReservedNow <= Count(players, IsUncalled)
    /\ GoaliesReservedNow <= Count(goalies, IsUncalled)

\* a second leader is at work after the first formation is complete
C5_Witness ==
    /\ claims = 1
    /\ \E r \in PSet : r.pc = "l_down" /\ r.count = 1 /\ r.stat = "FORMING_TEAM"

\* ---------------------------------------------------------------------------
\* C6: when every player has been through the decision, the number of LATE
\* players is max(0, totalPlayers - 2*teamSize), teamSize being the number of
\* field players of a team; and a formed team has exactly teamSize field players.
TotalPlayers == BagCardinality(players)
C6_LateCount ==
    /\ playersArrived = TotalPlayers =>
          Count(players, LAMBDA r : r.stat = "LATE")
             = Max(0, TotalPlayers - 2 * NUMTEAMPLAYERS)
    /\ Quiescent =>
          \A k \in 1 .. claims :
             Count(players, LAMBDA r : r.team = InitialTeamId + k - 1) = NUMTEAMPLAYERS

\* nine players have arrived, one of them is late, two teams of four were formed
C6_Witness ==
    /\ TotalPlayers = 9 /\ playersArrived = 9 /\ claims = 2
    /\ Count(players, LAMBDA r : r.stat = "LATE") = 1
    /\ Count(players, LAMBDA r : r.team = 1) = 4
    /\ Count(players, LAMBDA r : r.team = 2) = 4

\* ---------------------------------------------------------------------------
\* C7: the number of teams formed depends only on how many players and goalies
\* arrive: every run of a population ends with the same number of formations.
C7_TeamsByPopulation ==
    Quiescent =>
        /\ claims = TeamsFor(BagCardinality(players), BagCardinality(goalies))
        /\ teamId = InitialTeamId + claims

\* a run that ends with one team, because only one goalie arrived
C7_Witness ==
    /\ Quiescent
    /\ BagCardinality(players) >= 2 * NUMTEAMPLAYERS
    /\ BagCardinality(goalies) = 1
    /\ claims = 1

\* ---------------------------------------------------------------------------
\* C8 (as stated): playersFree and goaliesFree are never negative and equal the
\* number of players, resp. goalies, whose status is WAITING_TEAMS.
C8_FreeEqualsWaiting ==
    /\ playersFree >= 0 /\ goaliesFree >= 0
    /\ playersFree = Count(players, LAMBDA r : r.stat = "WAITING_TEAMS")
    /\ goaliesFree = Count(goalies, LAMBDA r : r.stat = "WAITING_TEAMS")

\* C8 (amended): playersFree and goaliesFree are never negative and equal the
\* number of players, resp. goalies, in WAITING_TEAMS that no leader has
\* reserved; reserved and called followers stay in WAITING_TEAMS, so the
\* counters never exceed the number of WAITING_TEAMS entries.
C8_FreeEqualsUnreserved ==
    /\ playersFree >= 0 /\ goaliesFree >= 0
    /\ playersFree = Count(players, IsUncalled) - PlayersReservedNow
    /\ goaliesFree = Count(goalies, IsUncalled) - GoaliesReservedNow
    /\ \A r \in PSet \cup GSet : IsUncalled(r) => r.stat = "WAITING_TEAMS"
    /\ playersFree <= Count(players, LAMBDA r : r.stat = "WAITING_TEAMS")
    /\ goaliesFree <= Count(goalies, LAMBDA r : r.stat = "WAITING_TEAMS")

\* a leader has just reserved: the counters are 0 while three players and a
\* goalie are still in WAITING_TEAMS
C8_Witness ==
    /\ \E r \in PSet : r.pc = "l_up" /\ r.count = 0
    /\ playersFree = 0 /\ goaliesFree = 0
    /\ Count(players, LAMBDA r : r.stat = "WAITING_TEAMS") = 3
    /\ Count(goalies, LAMBDA r : r.stat = "WAITING_TEAMS") = 1

\* ---------------------------------------------------------------------------
\* C9 (as stated): in every run, once all the teams that can form have formed
\* (here: the run has ended with as many teams as the arrivals allow),
\* playersFree and goaliesFree are both 0.
C9_FreeBackToZero ==
    (Quiescent /\ claims = TeamsFor(BagCardinality(players), BagCardinality(goalies)))
        => (playersFree = 0 /\ goaliesFree = 0)

\* C9 (amended): once both teams have formed, playersFree and goaliesFree are
\* both 0 and stay 0; when fewer players or goalies arrive than two teams need,
\* the followers left over keep their counter above 0.
C9_ZeroAfterBothTeams ==
    nForm = NumTeams => (playersFree = 0 /\ goaliesFree = 0)

\* both teams formed after followers had been counted as free, and a late
\* player has been through the decision since
C9_Witness ==
    /\ claims = NumTeams /\ playersFree = 0 /\ goaliesFree = 0
    /\ playersArrived > 2 * NUMTEAMPLAYERS /\ goaliesArrived >= NumTeams

\* ---------------------------------------------------------------------------
\* positions inside playerConstituteTeam whose next step reads or writes a
\* shared counter or a status entry (arrive, waitReferee and playUntilEnd write
\* their status entry in one step that takes and releases the mutex)
WritePcs == {"c_cs", "l_claim"}
ReadOnlyPcs == {"f_read"}

\* C10 (as stated): every read and write of a shared counter or status entry by
\* a player is made while that player holds the mutex, the follower's read of
\* teamId included.
C10_AllAccessInsideCR ==
    \A r \in PSet : r.pc \in (WritePcs \cup ReadOnlyPcs) => r.inCR

\* C10 (amended): every write, and every read but one, is made while the player
\* holds the mutex; the follower's read of teamId after waking is made outside
\* its critical region, while the leader that woke it holds the mutex.
C10_AccessAndMutex ==
    /\ \A r \in PSet : r.pc \in WritePcs => (r.inCR /\ sem["mutex"] = 0)
    /\ \A r \in PSet : r.pc \in ReadOnlyPcs =>
          /\ ~r.inCR
          /\ sem["mutex"] = 0
          /\ \E l \in PSet \cup GSet : l.pc = "l_down" /\ l.inCR /\ l.batch = r.batch
    /\ Count(players, LAMBDA r : r.inCR) + Count(goalies, LAMBDA r : r.inCR)
          = 1 - sem["mutex"]

\* a follower is about to read teamId while its leader is inside the critical region
C10_Witness ==
    /\ \E r \in PSet : r.pc = "f_read" /\ ~r.inCR
    /\ \E l \in PSet : l.pc = "l_down" /\ l.inCR

\* ---------------------------------------------------------------------------
\* what a leader does between its reservation and its return, in order:
\* NUMTEAMPLAYERS-1 rounds of (semUp playersWaitTeam, semDown playerRegistered),
\* one round of (semUp goaliesWaitTeam, semDown playerRegistered), teamId++
FormationOrder ==
    [i \in 1 .. 2 * (NUMTEAMPLAYERS - 1) |->
        IF i % 2 = 1 THEN "up playersWaitTeam" ELSE "down playerRegistered"]
    \o <<"up goaliesWaitTeam", "down playerRegistered", "teamId++">>

IsPrefix(a, b) == Len(a) <= Len(b) /\ a = SubSeq(b, 1, Len(a))

\* leaders that have claimed their id and not yet signalled the referee
IsNotifying(r) == r.pc \in {"c_up", "c_ref"} /\ r.player_type = 1
NumNotifying == Count(players, IsNotifying) + Count(goalies, IsNotifying)

\* C11: what a leading player has done is always a beginning of the fixed order
\* (NUMTEAMPLAYERS-1 player rounds, one goalie round, then teamId++); it signals
\* refereeWaitTeams only when the whole order is done, hence after teamId++; and
\* refereeWaitTeams has been signalled once for every formation whose leader
\* has returned, never more often than teamId was incremented.
C11_FormationOrder ==
    /\ \A r \in PSet : IsPrefix(r.log, FormationOrder)
    /\ \A r \in PSet : r.stat = "FORMING_TEAM" /\ r.pc = "l_up" /\ r.count = 0 => r.log = <<>>
    /\ \A r \in PSet : r.pc = "c_ref" => r.log = FormationOrder
    /\ \A r \in PSet : r.log # <<>> => r.stat = "FORMING_TEAM"
    /\ signals["refereeWaitTeams"] = claims - NumNotifying
    /\ signals["refereeWaitTeams"] <= claims

\* the second leader is about to signal the referee, the first one has done so
C11_Witness ==
    /\ \E r \in PSet : r.pc = "c_ref" /\ r.log = FormationOrder /\ r.ret = InitialTeamId + 1
    /\ signals["refereeWaitTeams"] = 1 /\ claims = 2

\* ---------------------------------------------------------------------------
\* the channels between the processes (every semaphore but the mutex)
ChannelNames == SemNames \ {"mutex"}

\* C12: playersWaitTeam is never signalled more often than players have taken
\* the waiting branch, goaliesWaitTeam never more often than goalies have; the
\* signals made are covered by the followers that are no longer counted free;
\* and when no process can go on, no channel holds a signal.
C12_SignalsMatchWaits ==
    /\ signals["playersWaitTeam"] <= followers.players
    /\ signals["goaliesWaitTeam"] <= followers.goalies
    /\ signals["playersWaitTeam"] + playersFree <= followers.players
    /\ signals["goaliesWaitTeam"] + goaliesFree <= followers.goalies
    /\ \A s \in HandshakeNames : sem[s] <= signals[s]
    /\ Quiescent => \A s \in ChannelNames : sem[s] = 0

\* every process has finished, after two formations called six or more players
\* and at least one goalie
C12_Witness ==
    /\ Quiescent
    /\ referee.pc = "done"
    /\ \A r \in PSet \cup GSet : r.pc = "done"
    /\ signals["playersWaitTeam"] >= NumTeams * (NUMTEAMPLAYERS - 1)
    /\ signals["goaliesWaitTeam"] >= 1
    /\ signals["playerRegistered"] = NumTeams * NUMTEAMPLAYERS

\* ---------------------------------------------------------------------------
\* the statuses a player's entry may take after the status st (st included)
StatusNext(st) ==
    CASE st = "ARRIVING"        -> {"ARRIVING", "LATE", "FORMING_TEAM", "WAITING_TEAMS"}
      [] st = "LATE"            -> {"LATE"}
      [] st = "FORMING_TEAM"    -> {"FORMING_TEAM", "WAITING_START_1", "WAITING_START_2"}
      [] st = "WAITING_TEAMS"   -> {"WAITING_TEAMS", "WAITING_START_1", "WAITING_START_2"}
      [] st = "WAITING_START_1" -> {"WAITING_START_1", "PLAYING_1"}
      [] st = "WAITING_START_2" -> {"WAITING_START_2", "PLAYING_2"}
      [] st = "PLAYING_1"       -> {"PLAYING_1"}
      [] st = "PLAYING_2"       -> {"PLAYING_2"}
      [] OTHER                  -> {}

\* the status of a player agrees with how far it is in its life cycle
C13_StatusAtPc ==
    \A r \in PSet :
        /\ r.pc \in {"a_down", "c_down", "c_cs"} => r.stat = "ARRIVING"
        /\ r.stat = "ARRIVING" => r.pc \in {"a_down", "c_down", "c_cs"}
        /\ r.stat = "LATE" => r.pc \in {"c_up", "done"}
        /\ r.stat \in {"WAITING_START_1", "WAITING_START_2"} => r.pc \in {"w_wait", "p_down"}
        /\ r.stat \in {"PLAYING_1", "PLAYING_2"} => r.pc \in {"p_wait", "done"}

\* a step of a player replaces one copy of a record of the bag by another
\* record: the player was as r before the step, and is as r2 after it
StepsFrom(r) == CopiesIn(r, players') < CopiesIn(r, players)
StepsTo(r2)  == CopiesIn(r2, players') > CopiesIn(r2, players)

\* every step of a player takes its status to itself or to a later status
C13_StatusStep ==
    [][\A r \in PSet : StepsFrom(r) =>
          \A r2 \in BagToSet(players') : StepsTo(r2) => r2.stat \in StatusNext(r.stat)]_vars

\* C13: a player's status goes ARRIVING, then LATE (for good), or FORMING_TEAM or
\* WAITING_TEAMS, then WAITING_START_k, then PLAYING_k (for good); it never goes
\* back, never returns to ARRIVING, and a LATE status never changes.
C13_StatusPath == []C13_StatusAtPc /\ C13_StatusStep

\* a late player has left, players of both teams are playing and another one
\* is still waiting for the start
C13_Witness ==
    /\ \E r \in PSet : r.stat = "LATE" /\ r.pc = "done"
    /\ \E r \in PSet : r.stat = "PLAYING_1" /\ r.pc = "p_wait"
    /\ \E r \in PSet : r.stat = "PLAYING_2" /\ r.pc = "p_wait"
    /\ \E r \in PSet : r.stat = "WAITING_START_2" /\ r.pc = "w_wait"

\* ---------------------------------------------------------------------------
\* a LATE player holds no team, is in no handshake, and is leaving or has left
C14_LateReturnsZero ==
    \A r \in PSet : r.stat = "LATE" =>
        /\ r.ret = 0 /\ r.team = 0 /\ r.player_type = 0
        /\ r.pc \in {"c_up", "done"}

\* the steps of a LATE player: the decision adds one to playersArrived, the exit
\* releases the mutex; nothing else of the shared state changes
C14_LateFrame ==
    [][\A r \in PSet : StepsFrom(r) =>
          \A r2 \in BagToSet(players') : (StepsTo(r2) /\ r2.stat = "LATE") =>
              /\ playersFree' = playersFree /\ goaliesFree' = goaliesFree
              /\ teamId' = teamId /\ goaliesArrived' = goaliesArrived
              /\ \A s \in ChannelNames : sem'[s] = sem[s]
              /\ signals' = signals /\ followers' = followers
              /\ nForm' = nForm /\ claims' = claims
              /\ IF r.stat = "ARRIVING"
                 THEN playersArrived' = playersArrived + 1 /\ sem' = sem
                 ELSE playersArrived' = playersArrived /\ r2.pc = "done"
                      /\ sem'["mutex"] = sem["mutex"] + 1]_vars

\* C14: a player marked LATE returns 0 and takes part in no rendezvous: it adds
\* one to playersArrived and sets its own status, leaves playersFree,
\* goaliesFree, teamId and every channel as they are, and never runs waitReferee
\* or playUntilEnd.
C14_LateLeavesAlone == []C14_LateReturnsZero /\ C14_LateFrame

\* a late player has left while eight players are still waiting to be called
C14_Witness ==
    /\ \E r \in PSet : r.stat = "LATE" /\ r.pc = "done"
    /\ playersFree = 2 * NUMTEAMPLAYERS /\ claims = 0

\* ---------------------------------------------------------------------------
\* the scenario: 9 players and 2 goalies arrive
ScenarioPopulation == BagCardinality(players) = 9 /\ BagCardinality(goalies) = 2

\* the run has ended with two teams of n players and one goalie each, the
\* other players LATE with return value 0, and teamId at last
ScenarioEnds(n, last) ==
    /\ \A k \in {1, 2} :
          /\ Count(players, LAMBDA r : r.team = k /\ r.stat = TeamStat("PLAYING", k)) = n
          /\ Count(goalies, LAMBDA r : r.team = k) = 1
    /\ Count(players, LAMBDA r : r.team = 0 /\ r.stat = "LATE") = 9 - 2 * n
    /\ \A r \in PSet \cup GSet : r.pc = "done"
    /\ teamId = last

\* in the scenario, the players that enter playerConstituteTeam after the first
\* n are LATE, the first n are not (entering in id order, the first n are players 0 .. n-1)
LateAfter(n) ==
    \A r \in PSet : (ScenarioPopulation /\ StepsFrom(r) /\ r.pc = "c_cs") =>
        \A r2 \in BagToSet(players') : StepsTo(r2) =>
            (r2.stat = "LATE" <=> playersArrived' > n)

\* C15 (as stated): with 9 players and 2 goalies, players entering in id order,
\* players 0-5 and both goalies end in 2 teams of 3 players + 1 goalie, players
\* 6-8 end LATE with return value 0, and teamId ends at 2.
C15_SixPlayThreeLate ==
    /\ [](ScenarioPopulation /\ Quiescent => ScenarioEnds(3, 2))
    /\ [][LateAfter(6)]_vars

\* C15 (amended): with 9 players and 2 goalies, players entering in id order,
\* players 0-7 and both goalies end in 2 teams of 4 players + 1 goalie, player 8
\* ends LATE with return value 0, and teamId ends at 3.
C15_EightPlayOneLate ==
    /\ [](ScenarioPopulation /\ Quiescent => ScenarioEnds(NUMTEAMPLAYERS, InitialTeamId + NumTeams))
    /\ [][LateAfter(2 * NUMTEAMPLAYERS)]_vars

\* the scenario has ended: eight players have played, one is late, teamId is 3
C15_Witness ==
    /\ ScenarioPopulation /\ Quiescent
    /\ playersArrived = 9
    /\ Count(players, LAMBDA r : r.stat = "LATE") = 1
    /\ Count(players, LAMBDA r : r.stat \in {"PLAYING_1", "PLAYING_2"}) = 8
    /\ teamId = 3

\* ---------------------------------------------------------------------------
\* no goalie arrives
NoGoalies == BagCardinality(goalies) = 0

\* C16: when no goalie arrives, goaliesFree stays 0, no player ever leads (no
\* status FORMING_TEAM, teamId as at the start, refereeWaitTeams never
\* signalled), and every player that is past the decision and not LATE is in
\* WAITING_TEAMS, on its way to or blocked on playersWaitTeam, which never
\* holds a signal; the run ends with all of them blocked there.
C16_NoGoalieNoTeam ==
    NoGoalies =>
        /\ goaliesFree = 0
        /\ \A r \in PSet : r.stat # "FORMING_TEAM"
        /\ teamId = InitialTeamId /\ nForm = 0 /\ claims = 0
        /\ signals["refereeWaitTeams"] = 0 /\ sem["refereeWaitTeams"] = 0
        /\ signals["playersWaitTeam"] = 0 /\ sem["playersWaitTeam"] = 0
        /\ \A r \in PSet : r.stat \notin {"ARRIVING", "LATE"} =>
              (r.stat = "WAITING_TEAMS" /\ r.pc \in {"c_up", "f_wait"})
        /\ playersFree = Count(players, LAMBDA r : r.stat = "WAITING_TEAMS")
        /\ Quiescent => \A r \in PSet :
              \/ r.stat = "WAITING_TEAMS" /\ r.pc = "f_wait"
              \/ r.stat = "LATE" /\ r.pc = "done"

\* nine players and no goalie: eight players are blocked on playersWaitTeam,
\* the ninth is late, and nothing can move
C16_Witness ==
    /\ NoGoalies /\ Quiescent
    /\ Count(players, LAMBDA r : r.stat = "WAITING_TEAMS" /\ r.pc = "f_wait") = 8
    /\ Count(players, LAMBDA r : r.stat = "LATE") = 1

\* ---------------------------------------------------------------------------
\* the player has returned from playerConstituteTeam
ReturnedPcs == {"w_down", "w_wait", "p_down", "p_wait", "done"}

\* what a player holds as its team: nothing before the return; after it, 0
\* exactly when it is LATE, else 1 or 2, the k of its WAITING_START_k or PLAYING_k
C17_TeamOfStatus ==
    \A r \in PSet :
        /\ r.pc \notin ReturnedPcs => r.team = 0
        /\ r.pc \in ReturnedPcs => (r.team = 0 <=> r.stat = "LATE")
        /\ r.pc \in ReturnedPcs => r.team \in {0, 1, 2}
        /\ r.stat \in {"WAITING_START_1", "PLAYING_1"} => r.team = 1
        /\ r.stat \in {"WAITING_START_2", "PLAYING_2"} => r.team = 2
        /\ r.pc \in {"w_wait", "p_down"} => r.stat = TeamStat("WAITING_START", r.team)
        /\ r.pc = "p_wait" => r.stat = TeamStat("PLAYING", r.team)

\* the value returned is kept: a player's team never changes once it is set
C17_TeamKept ==
    [][\A r \in PSet : (StepsFrom(r) /\ r.pc \in ReturnedPcs) =>
          \A r2 \in BagToSet(players') : StepsTo(r2) => r2.team = r.team]_vars

\* C17: playerConstituteTeam returns 0 if and only if the player was marked
\* LATE; every other player returns 1 or 2, its WAITING_START_k and PLAYING_k
\* carry the k it returned, and that value never changes afterwards.
C17_ReturnIsTeam == []C17_TeamOfStatus /\ C17_TeamKept

\* a leader and a follower of team 2 are playing and the late player has left
C17_Witness ==
    /\ Count(players, LAMBDA r : r.stat = "PLAYING_2" /\ r.team = 2) >= 2
    /\ \E r \in PSet : r.stat = "WAITING_START_1" /\ r.team = 1
    /\ \E r \in PSet : r.stat = "LATE" /\ r.team = 0 /\ r.pc = "done"

\* ---------------------------------------------------------------------------
\* players taken off playersFree by a reservation and not woken yet
ReservedWaiting == Count(players, IsUncalled) - playersFree

\* a leader reserves as many free players as it then wakes: right after the
\* reservation of a leading player NUMTEAMPLAYERS-1 reserved players wait, each
\* semUp on playersWaitTeam is for one of them, and none is left when the
\* leader's loop is over
C18_ReservedAreCalled ==
    /\ ReservedWaiting >= 0
    /\ ReservedWaiting = PlayersReservedNow
    /\ \A r \in PSet : r.pc = "l_up" =>
          ReservedWaiting = NUMTEAMPLAYERS - 1 - r.count
    /\ \A r \in PSet : r.pc = "l_down" =>
          ReservedWaiting = NUMTEAMPLAYERS - 1 - r.count - 1 + sem["playersWaitTeam"]
    /\ \A r \in PSet \cup GSet : r.pc \in {"lg_up", "lg_down", "l_claim"} =>
          ReservedWaiting = 0
    /\ NumLeading = 0 => ReservedWaiting = 0

\* C18: the free players a leader reserves are as many as it wakes in its loop;
\* every reserved player is woken by that leader, and none stays blocked on
\* playersWaitTeam forever.
C18_ReservedEventuallyWoken ==
    /\ []C18_ReservedAreCalled
    /\ (ReservedWaiting > 0) ~> (ReservedWaiting = 0)

\* the second leader, a player, has made its reservation: three reserved
\* players wait, after those of the first formation were all woken
C18_Witness ==
    /\ \E r \in PSet : r.pc = "l_up" /\ r.count = 0 /\ r.stat = "FORMING_TEAM"
    /\ ReservedWaiting = NUMTEAMPLAYERS - 1
    /\ claims = 1 /\ signals["playersWaitTeam"] >= NUMTEAMPLAYERS - 1

\* ---------------------------------------------------------------------------
\* the follower f is in the handshake and can take its next step
PlayerCanAnswer(f) ==
    /\ f.pc \in {"f_wait", "f_read", "f_ack"}
    /\ ENABLED (follower_wait(f) \/ follower_read(f) \/ follower_register(f))
GoalieCanAnswer(f) ==
    /\ f.pc \in {"f_wait", "f_read", "f_ack"}
    /\ ENABLED (goalie_follower_wait(f) \/ goalie_follower_read(f)
                   \/ goalie_follower_register(f))

\* whenever a leader is blocked on playerRegistered, it holds the mutex and a
\* follower of the kind it has just called (of its formation, once woken) can
\* go on all the same
C19_LeaderNeverStuck ==
    /\ \A l \in PSet \cup GSet : (l.pc = "l_down" /\ ~CanDown("playerRegistered")) =>
          /\ sem["mutex"] = 0
          /\ \E f \in PSet : PlayerCanAnswer(f) /\ (f.pc # "f_wait" => f.batch = l.batch)
    /\ \A l \in PSet : (l.pc = "lg_down" /\ ~CanDown("playerRegistered")) =>
          /\ sem["mutex"] = 0
          /\ \E f \in GSet : GoalieCanAnswer(f) /\ (f.pc # "f_wait" => f.batch = l.batch)

\* formations started and not yet announced to the referee
FormationsPending == nForm - signals["refereeWaitTeams"]

\* C19: every formation that is started is completed: its leader finishes the
\* handshakes, increments teamId, releases the mutex and signals
\* refereeWaitTeams (weak fairness); a leader blocked on playerRegistered always
\* has a follower that can wake and answer without the mutex.
C19_FormationCompletes ==
    /\ []C19_LeaderNeverStuck
    /\ [](FormationsPending >= 0)
    /\ (FormationsPending > 0) ~> (FormationsPending = 0 /\ claims = nForm /\ NumLeading = 0)

\* a leading player is blocked on playerRegistered while the player it called
\* has not yet consumed the call
C19_Witness ==
    /\ \E l \in PSet : l.pc = "l_down" /\ l.count = NUMTEAMPLAYERS - 2
    /\ sem["playerRegistered"] = 0 /\ sem["playersWaitTeam"] = 1 /\ sem["mutex"] = 0
    /\ \E r \in PSet \cup GSet : r.pc = "c_down"

\* ---------------------------------------------------------------------------
\* followers that were woken and have not yet signalled playerRegistered
IsAnswering(r) == r.pc \in {"f_read", "f_ack"}
\* leaders that have called a follower and wait for its registration
IsAwaiting(r) == r.pc \in LeaderWaitPcs
\* semDown made so far on the channel s
Waited(s) == signals[s] - sem[s]

\* C20: playerRegistered never holds more than one signal; the followers have
\* signalled it once each (as many signals as followers that were woken and are
\* through); and when a leader waits on it, exactly one answer is on its way:
\* the call not yet consumed, or the one follower woken by it (a player for a
\* player round, a goalie for the goalie round, of the leader's formation), or
\* its signal on playerRegistered; otherwise nothing is on its way.
C20_OneAnswerPerRound ==
    /\ sem["playerRegistered"] <= 1
    /\ signals["playerRegistered"]
          = Waited("playersWaitTeam") + Waited("goaliesWaitTeam")
            - Count(players, IsAnswering) - Count(goalies, IsAnswering)
    /\ signals["playerRegistered"] <= followers.players + followers.goalies
    /\ Count(players, IsAwaiting) + Count(goalies, IsAwaiting) <= 1
    /\ sem["playersWaitTeam"] + Count(players, IsAnswering)
          + sem["goaliesWaitTeam"] + Count(goalies, IsAnswering)
          + sem["playerRegistered"]
          = Count(players, IsAwaiting) + Count(goalies, IsAwaiting)
    /\ \A l \in PSet \cup GSet : l.pc = "l_down" =>
          sem["goaliesWaitTeam"] + Count(goalies, IsAnswering) = 0
    /\ \A l \in PSet : l.pc = "lg_down" =>
          sem["playersWaitTeam"] + Count(players, IsAnswering) = 0
    /\ \A f \in PSet \cup GSet : IsAnswering(f) =>
          /\ f.batch = nForm
          /\ \E l \in PSet \cup GSet : IsAwaiting(l) /\ l.batch = f.batch
    /\ Waited("playerRegistered")
          = Total(players, LAMBDA r : IF IsLeading(r) THEN r.count ELSE 0)
            + Total(goalies, LAMBDA r : IF IsLeading(r) THEN r.count ELSE 0)
            + Count(players, LAMBDA r : r.pc = "l_claim")
            + claims * NUMTEAMPLAYERS

\* in the second formation the goalie has signalled playerRegistered and the
\* leader has not yet consumed the signal
C20_Witness ==
    /\ \E l \in PSet : l.pc = "lg_down" /\ l.batch = 2
    /\ sem["playerRegistered"] = 1
    /\ signals["playerRegistered"] = 2 * NUMTEAMPLAYERS
====
